---- MODULE Spec2Model ----
(***************************************************************************)
(* Model of get_test_data.py: main(chain_name, num_rounds) walks the       *)
(* tokens of one network of the registry `config`, reads the latest oracle *)
(* round and the preceding rounds of each token's price feed through       *)
(* read-only contract calls, accumulates the records in raw_data and       *)
(* dumps raw_data to test/data.json once, after the token loop.            *)
(*                                                                         *)
(* The price-feed contracts and the RPC endpoint are outside the program:  *)
(* every call either fails (the exception is not caught anywhere in main)  *)
(* or returns a 5-tuple (round_id, answer, startedAt, updatedAt,           *)
(* answeredInRound) chosen by the environment.  main never compares the    *)
(* round_id of a response with the id it asked for, so the model lets the  *)
(* environment answer with the requested id or with another one.           *)
(***************************************************************************)
EXTENDS Integers, Sequences, FiniteSets, TLC

VARIABLES
    chain_name,   \* argument of main
    num_rounds,   \* argument of main
    pc,           \* position of the run in main
    tokIdx,       \* number of keys of config[chain_name] the for loop has taken
    contract,     \* address the current contract object is bound to
    raw_data,     \* the result document under construction
    counter,      \* loop counter of the current token
    round_id,     \* cursor: the round id the next getRoundData call asks for
    calls,        \* history: the contract calls issued so far, in order
    file,         \* test/data.json: its content and the number of writes
    error         \* the unhandled exception that ended the run, if any

vars == <<chain_name, num_rounds, pc, tokIdx, contract, raw_data, counter,
          round_id, calls, file, error>>

---------------------------------------------------------------------------
(* Bounds of the model *)

\* num_rounds ranges over 1..MaxNumRounds
MaxNumRounds == 3

\* the latest round id a feed reports ranges over 0..MaxRoundId
MaxRoundId == 2

---------------------------------------------------------------------------
(* The network registry, lines 5-26 *)

config ==
    ("mainnet" :>
        [ETH |-> "0x5f4eC3Df9cbd43714FE2740f5E3616155c5b8419",
         BTC |-> "0xF4030086522a5bEEa4988F8cA5B36dbC97BeE88c",
         DAI |-> "0xAed0c38402a5d19df6E4c03F4E2DceD6e29c1ee9"]) @@
    ("kovan" :>
        [ETH |-> "0x9326BFA02ADD2366b30bacB125260Af641031331",
         BTC |-> "0x6135b13325bfC4B00278B4abC5e20bbce2D6580e",
         DAI |-> "0x777A68032a88E5A84678A77Af2CD65A7b3c0775a"]) @@
    ("rinkeby" :>
        [ETH |-> "0x8A753747A1Fa494EC906cE90E9f37563A8AF630e",
         BTC |-> "0xECe365B379E1dD183B20fc5f022230C044d51404",
         DAI |-> "0x2bA49Aaa16E6afD2a993473cfB70Fa8559B523cF"]) @@
    ("polygon-mainnet" :>
        [ETH |-> "0xF9680D99D6C9589e2a93a78A04A279e509205945",
         BTC |-> "0xc907E116054Ad103354f2D350FD2514433D57F6f",
         DAI |-> "0x4746DeC9e833A82EC7C2C1356372CcF2cfcD2F3D"])

\* Iterating a dict yields its keys in insertion order: the declared order.
TokenOrder(chain) == <<"ETH", "BTC", "DAI">>

\* The chain names main is run with: registered ones and one that is no key
\* of config.
ChainNames == {"mainnet", "polygon-mainnet", "goerli"}

---------------------------------------------------------------------------
(* str() of an int: the decimal digits, most significant first, with a     *)
(* leading "-" for a negative value.  A string is a sequence of            *)
(* one-character strings.                                                  *)

DigitChars == <<"0", "1", "2", "3", "4", "5", "6", "7", "8", "9">>

RECURSIVE NatStr(_)
NatStr(n) ==
    IF n < 10 THEN <<DigitChars[n + 1]>>
    ELSE NatStr(n \div 10) \o <<DigitChars[(n % 10) + 1]>>

\* variant of str that loses the sign
StrAbs(n) == IF n < 0 THEN NatStr(-n) ELSE NatStr(n)

str(n) == IF n < 0 THEN <<"-">> \o NatStr(-n) ELSE NatStr(n)

---------------------------------------------------------------------------
(* The environment: what a contract call can return *)

\* (answer, startedAt, updatedAt) of a round; answer is a signed int256.
Payloads == { <<-35, 10, 11>>, <<1234, 20, 21>> }

\* latestRoundData(): any round id of the feed may be the latest one.
LatestResponses ==
    { <<r, p[1], p[2], p[3], r>> : r \in 0..MaxRoundId, p \in Payloads }

\* getRoundData(r): the feed answers with the requested id, or with another.
HistoricalResponses(r) ==
    { <<r, 1234, 20, 21, r>>, <<r + 1, -35, 10, 11, r + 1>> }

\* _round_id is a uint80 (the abi, line 40): a negative argument cannot be
\* encoded and the call raises.  The cursor only decreases from a uint80
\* value, so the upper limit is never met.
Encodable(r) == r >= 0

Call(address, fn, args, ok, result) ==
    [contract |-> address, fn |-> fn, args |-> args, ok |-> ok,
     result |-> result]

---------------------------------------------------------------------------
(* Pieces of main *)

\* lines 51-55
LatestRecord(latest_data) ==
    [round_id  |-> str(latest_data[1]),
     price     |-> str(latest_data[2]),
     timestamp |-> str(latest_data[4])]

\* variant of HistoricalRecord that takes startedAt for the timestamp
HistoricalRecordStartedAt(historical_data) ==
    [round_id  |-> str(historical_data[1]),
     price     |-> str(historical_data[2]),
     timestamp |-> str(historical_data[3])]

\* lines 64-68
HistoricalRecord(historical_data) ==
    [round_id  |-> str(historical_data[1]),
     price     |-> str(historical_data[2]),
     timestamp |-> str(historical_data[4])]

\* variant of Oracle that ignores the selected network
OracleOfMainnet(chain, token) == config["mainnet"][token]

\* line 49
Oracle(chain, token) == config[chain][token]

\* line 59
FirstCursor(latest_data) == latest_data[1] - 1

\* variant of NextCursor that steps over a round
NextCursorSkip(r) == r - 2

\* line 63
NextCursor(r) == r - 1

\* line 70
LoopExit(c, n) == c >= n

\* the token the for loop is at
token == TokenOrder(chain_name)[tokIdx]

PreviousFile == [content |-> ("stale" :> [oracle |-> "", data |-> <<>>]),
                 writes |-> 0]

---------------------------------------------------------------------------
Init ==
    /\ chain_name \in ChainNames
    /\ num_rounds \in 1..MaxNumRounds
    /\ pc = "Connect"
    /\ tokIdx = 0
    /\ contract = ""
    /\ raw_data = <<>>
    /\ counter = 0
    /\ round_id = 0
    /\ calls = <<>>
    /\ file = PreviousFile
    /\ error = "none"

\* lines 34-42: the Web3 object is built (no request is sent), raw_data = {}
Connect ==
    /\ pc = "Connect"
    /\ raw_data' = <<>>
    /\ pc' = "Lookup"
    /\ UNCHANGED <<chain_name, num_rounds, tokIdx, contract, counter,
                   round_id, calls, file, error>>

\* line 43: config[chain_name] is evaluated once, when the for loop starts
LookupOk ==
    /\ pc = "Lookup"
    /\ chain_name \in DOMAIN config
    /\ pc' = "ForEachToken"
    /\ UNCHANGED <<chain_name, num_rounds, tokIdx, contract, raw_data,
                   counter, round_id, calls, file, error>>

\* variant of LookupKeyError: config.get(chain_name, {}) and an empty loop
LookupDefaultsToEmpty ==
    /\ pc = "Lookup"
    /\ chain_name \notin DOMAIN config
    /\ pc' = "Serialize"
    /\ UNCHANGED <<chain_name, num_rounds, tokIdx, contract, raw_data,
                   counter, round_id, calls, file, error>>

\* line 43: KeyError
LookupKeyError ==
    /\ pc = "Lookup"
    /\ chain_name \notin DOMAIN config
    /\ pc' = "Aborted"
    /\ error' = "KeyError"
    /\ UNCHANGED <<chain_name, num_rounds, tokIdx, contract, raw_data,
                   counter, round_id, calls, file>>

\* variant of ForToken that dumps raw_data inside the token loop
ForTokenAndDump ==
    /\ pc = "ForEachToken"
    /\ tokIdx < Len(TokenOrder(chain_name))
    /\ tokIdx' = tokIdx + 1
    /\ contract' = config[chain_name][TokenOrder(chain_name)[tokIdx + 1]]
    /\ file' = [content |-> raw_data, writes |-> file.writes + 1]
    /\ pc' = "FetchLatest"
    /\ UNCHANGED <<chain_name, num_rounds, raw_data, counter, round_id,
                   calls, error>>

\* lines 43-44: the next token, and the contract object bound to its address
ForToken ==
    /\ pc = "ForEachToken"
    /\ tokIdx < Len(TokenOrder(chain_name))
    /\ tokIdx' = tokIdx + 1
    /\ contract' = config[chain_name][TokenOrder(chain_name)[tokIdx + 1]]
    /\ pc' = "FetchLatest"
    /\ UNCHANGED <<chain_name, num_rounds, raw_data, counter, round_id,
                   calls, file, error>>

\* line 43: the iterator is exhausted, control goes to line 73
ForExhausted ==
    /\ pc = "ForEachToken"
    /\ tokIdx = Len(TokenOrder(chain_name))
    /\ pc' = "Serialize"
    /\ UNCHANGED <<chain_name, num_rounds, tokIdx, contract, raw_data,
                   counter, round_id, calls, file, error>>

\* lines 46-59: the call returns
LatestRoundDataOk ==
    /\ pc = "FetchLatest"
    /\ \E latest_data \in LatestResponses :
          /\ calls' = Append(calls,
                 Call(contract, "latestRoundData", <<>>, TRUE, latest_data))
          /\ raw_data' = (token :> [oracle |-> Oracle(chain_name, token),
                                    data |-> <<LatestRecord(latest_data)>>])
                            @@ raw_data
          /\ counter' = 1
          /\ round_id' = FirstCursor(latest_data)
    /\ pc' = "FetchHistoricalLoop"
    /\ UNCHANGED <<chain_name, num_rounds, tokIdx, contract, file, error>>

\* line 46: the call raises; nothing in main catches it
LatestRoundDataFail ==
    /\ pc = "FetchLatest"
    /\ calls' = Append(calls,
           Call(contract, "latestRoundData", <<>>, FALSE, <<>>))
    /\ pc' = "Aborted"
    /\ error' = "CallError"
    /\ UNCHANGED <<chain_name, num_rounds, tokIdx, contract, raw_data,
                   counter, round_id, file>>

\* lines 60-71: one iteration of the while True loop, the call returns
GetRoundDataOk ==
    /\ pc = "FetchHistoricalLoop"
    /\ Encodable(round_id)
    /\ \E historical_data \in HistoricalResponses(round_id) :
          /\ calls' = Append(calls,
                 Call(contract, "getRoundData", <<round_id>>, TRUE,
                      historical_data))
          /\ raw_data' = [raw_data EXCEPT ![token].data =
                             Append(@, HistoricalRecord(historical_data))]
    /\ round_id' = NextCursor(round_id)
    /\ counter' = counter + 1
    /\ pc' = IF LoopExit(counter + 1, num_rounds)
                THEN "ForEachToken" ELSE "FetchHistoricalLoop"
    /\ UNCHANGED <<chain_name, num_rounds, tokIdx, contract, file, error>>

\* variant of GetRoundDataFail that swallows the exception and goes on
GetRoundDataFailSkipsToken ==
    /\ pc = "FetchHistoricalLoop"
    /\ calls' = Append(calls,
           Call(contract, "getRoundData", <<round_id>>, FALSE, <<>>))
    /\ pc' = "ForEachToken"
    /\ UNCHANGED <<chain_name, num_rounds, tokIdx, contract, raw_data,
                   counter, round_id, file, error>>

\* variant of GetRoundDataFail that swallows the exception and asks again
GetRoundDataFailRetries ==
    /\ pc = "FetchHistoricalLoop"
    /\ pc' = "FetchHistoricalLoop"
    /\ UNCHANGED <<chain_name, num_rounds, tokIdx, contract, raw_data,
                   counter, round_id, calls, file, error>>

\* line 61: the call raises; nothing in main catches it
GetRoundDataFail ==
    /\ pc = "FetchHistoricalLoop"
    /\ calls' = Append(calls,
           Call(contract, "getRoundData", <<round_id>>, FALSE, <<>>))
    /\ pc' = "Aborted"
    /\ error' = "CallError"
    /\ UNCHANGED <<chain_name, num_rounds, tokIdx, contract, raw_data,
                   counter, round_id, file>>

\* lines 73-74: the file is opened for writing and raw_data dumped into it
Serialize ==
    /\ pc = "Serialize"
    /\ file' = [content |-> raw_data, writes |-> file.writes + 1]
    /\ pc' = "Done"
    /\ UNCHANGED <<chain_name, num_rounds, tokIdx, contract, raw_data,
                   counter, round_id, calls, error>>

\* line 73: open() raises (no directory test/, no permission)
SerializeFail ==
    /\ pc = "Serialize"
    /\ pc' = "Aborted"
    /\ error' = "IOError"
    /\ UNCHANGED <<chain_name, num_rounds, tokIdx, contract, raw_data,
                   counter, round_id, calls, file>>

Next ==
    \/ Connect
    \/ LookupOk
    \/ LookupKeyError
    \/ ForToken
    \/ ForExhausted
    \/ LatestRoundDataOk
    \/ LatestRoundDataFail
    \/ GetRoundDataOk
    \/ GetRoundDataFail
    \/ Serialize
    \/ SerializeFail

Spec == Init /\ [][Next]_vars

\* The run is one thread of control and every call blocks until it returns
\* or raises: a step that can be taken is taken.
FairSpec == Spec /\ WF_vars(Next)

---------------------------------------------------------------------------
(* Vocabulary of the properties *)

Terminal == {"Done", "Aborted"}

Registered == chain_name \in DOMAIN config

\* the calls issued to the price feed of token t, in order
CallsTo(t) == SelectSeq(calls, LAMBDA c : c.contract = config[chain_name][t])

\* those of them that returned
ReturnedTo(t) == SelectSeq(CallsTo(t), LAMBDA c : c.ok)

FailedCalls == { i \in 1..Len(calls) : ~calls[i].ok }

\* the latest round id the feed of token t reported
LatestIdOf(t) == CallsTo(t)[1].result[1]

\* the result document: what the file holds once the run is done, and what
\* raw_data holds until then
Document == IF pc = "Done" THEN file.content ELSE raw_data

\* reading a decimal string back
DigitValue(c) == CHOOSE d \in 0..9 : DigitChars[d + 1] = c

IsDigit(c) == \E d \in 1..10 : DigitChars[d] = c

RECURSIVE ParseNat(_)
ParseNat(s) ==
    IF Len(s) = 0 THEN 0
    ELSE ParseNat(SubSeq(s, 1, Len(s) - 1)) * 10 + DigitValue(s[Len(s)])

ParseInt(s) == IF s[1] = "-" THEN -ParseNat(Tail(s)) ELSE ParseNat(s)

\* -?(0|[1-9][0-9]*)
IsDecimalString(s) ==
    LET digits == IF Len(s) > 0 /\ s[1] = "-" THEN Tail(s) ELSE s
    IN  /\ Len(digits) >= 1
        /\ \A i \in 1..Len(digits) : IsDigit(digits[i])
        /\ Len(digits) > 1 => digits[1] # "0"

\* every getRoundData response carries the round id that was asked for
FeedsEcho ==
    \A i \in 1..Len(calls) :
        (calls[i].fn = "getRoundData" /\ calls[i].ok)
            => calls[i].result[1] = calls[i].args[1]

---------------------------------------------------------------------------
(* C1 *)

\* C1: when main completes, every token of the selected network has a data
\* sequence of length exactly num_rounds, for every num_rounds >= 1
\* (num_rounds = 1 included).
C1_DataLengthIsNumRounds ==
    pc = "Done" =>
        \A t \in DOMAIN config[chain_name] :
            Len(file.content[t].data) = num_rounds

\* C1 at the smallest admissible input: one run with num_rounds = 1 that
\* completed holds two records per token.
C1_RunOfOneRoundDone ==
    /\ pc = "Done"
    /\ num_rounds = 1
    /\ \A t \in DOMAIN file.content : Len(file.content[t].data) = 2

---------------------------------------------------------------------------
(* C2 *)

\* C2 as stated: when main completes, for every token the first recorded
\* round_id is the latest round id returned by latestRoundData and the
\* recorded round_id values of consecutive elements of data decrease by
\* exactly 1.
C2_RecordedIdsDecreaseByOne ==
    pc = "Done" =>
        \A t \in DOMAIN file.content :
            LET data == file.content[t].data
            IN  /\ ParseInt(data[1].round_id) = LatestIdOf(t)
                /\ \A k \in 1..(Len(data) - 1) :
                      ParseInt(data[k + 1].round_id)
                          = ParseInt(data[k].round_id) - 1

\* C2 amended: for every token the first recorded round_id is the latest
\* round id returned by latestRoundData; the k-th getRoundData call asks for
\* latest round id - k, so the requested ids decrease by exactly 1; the
\* recorded round_id of each historical element is the round_id of the
\* response to that call; hence the recorded values decrease by exactly 1
\* whenever every response carries the round id that was asked for.
C2_RequestedIdsDecreaseByOne ==
    Registered =>
        \A t \in DOMAIN Document :
            LET data == Document[t].data
                cs   == CallsTo(t)
            IN  /\ cs[1].fn = "latestRoundData"
                /\ ParseInt(data[1].round_id) = LatestIdOf(t)
                /\ \A k \in 2..Len(cs) :
                      /\ cs[k].fn = "getRoundData"
                      /\ cs[k].args = <<LatestIdOf(t) - (k - 1)>>
                /\ \A k \in 2..Len(data) :
                      ParseInt(data[k].round_id) = cs[k].result[1]
                /\ FeedsEcho =>
                      \A k \in 1..(Len(data) - 1) :
                          ParseInt(data[k + 1].round_id)
                              = ParseInt(data[k].round_id) - 1

\* C2: a completed run of three rounds per token in which every feed
\* answered with the requested ids.
C2_ThreeRoundsEchoedDone ==
    /\ pc = "Done"
    /\ num_rounds = 3
    /\ FeedsEcho
    /\ \A t \in DOMAIN file.content : Len(file.content[t].data) = 3

---------------------------------------------------------------------------
(* C3 *)

\* C3: for every token, element 0 of data holds fields 0 (round_id),
\* 1 (price) and 3 (updatedAt, as timestamp) of the latestRoundData response
\* of the token's contract, and element k >= 1 holds the same fields of that
\* contract's getRoundData response for the cursor latest round id - k.
C3_RecordsMatchResponses ==
    Registered =>
        \A t \in DOMAIN Document :
            LET data == Document[t].data
                rs   == ReturnedTo(t)
            IN  /\ Len(data) = Len(rs)
                /\ rs[1].fn = "latestRoundData"
                /\ \A k \in 1..Len(data) :
                      /\ data[k].round_id = str(rs[k].result[1])
                      /\ data[k].price = str(rs[k].result[2])
                      /\ data[k].timestamp = str(rs[k].result[4])
                      /\ DOMAIN data[k] = {"round_id", "price", "timestamp"}
                /\ \A k \in 2..Len(data) :
                      /\ rs[k].fn = "getRoundData"
                      /\ rs[k].args = <<rs[1].result[1] - (k - 1)>>

\* C3: a completed run whose last token holds a third record taken from a
\* response with startedAt = 20 and updatedAt = 21.
C3_HistoricalRecordDone ==
    /\ pc = "Done"
    /\ Len(file.content["DAI"].data) = 3
    /\ file.content["DAI"].data[3].timestamp = <<"2", "1">>
    /\ file.content["DAI"].data[1].timestamp = <<"1", "1">>

---------------------------------------------------------------------------
(* C4 *)

\* C4: once a contract call has failed, the run is aborted and the file is
\* what it was before the run: it is never written.
C4_FailedCallLeavesFileUntouched ==
    FailedCalls # {} =>
        /\ pc = "Aborted"
        /\ error = "CallError"
        /\ file = PreviousFile

\* C4: a getRoundData call of the second token failed, after the first token
\* was collected in full.
C4_SecondTokenCallFailed ==
    /\ pc = "Aborted"
    /\ tokIdx = 2
    /\ DOMAIN raw_data = {"ETH", "BTC"}
    /\ Len(calls) > 0
    /\ calls[Len(calls)].fn = "getRoundData"
    /\ ~calls[Len(calls)].ok

---------------------------------------------------------------------------
(* C5 *)

\* C5: with a chain_name that is no key of the registry the run never issues
\* a contract call and never writes the file, and it ends in a KeyError.
C5_UnknownChainFailsBeforeAnyCall ==
    ~Registered =>
        /\ calls = <<>>
        /\ file = PreviousFile
        /\ pc \in {"Connect", "Lookup", "Aborted"}
        /\ pc = "Aborted" => error = "KeyError"

\* C5: the run with an unregistered chain_name has failed.
C5_UnknownChainAborted ==
    /\ chain_name = "goerli"
    /\ pc = "Aborted"
    /\ error = "KeyError"

---------------------------------------------------------------------------
(* C6 *)

\* C6: when the run completes, the keys of the result document are exactly
\* the token symbols of the selected network and each token's oracle is the
\* address the registry gives for it on that network.
C6_DocumentCoversNetwork ==
    pc = "Done" =>
        /\ DOMAIN file.content = DOMAIN config[chain_name]
        /\ DOMAIN file.content = {"ETH", "BTC", "DAI"}
        /\ \A t \in DOMAIN file.content :
              /\ file.content[t].oracle = config[chain_name][t]
              /\ \A other \in DOMAIN config :
                    other # chain_name
                        => file.content[t].oracle # config[other][t]

\* C6: a completed run on polygon-mainnet.
C6_PolygonDone ==
    /\ pc = "Done"
    /\ chain_name = "polygon-mainnet"
    /\ file.content["DAI"].oracle
           = "0x4746DeC9e833A82EC7C2C1356372CcF2cfcD2F3D"

---------------------------------------------------------------------------
(* C7 *)

AllTokensFetched ==
    /\ DOMAIN raw_data = DOMAIN config[chain_name]
    /\ tokIdx = Len(TokenOrder(chain_name))
    /\ \A t \in DOMAIN raw_data :
          /\ Len(raw_data[t].data) >= num_rounds
          /\ Len(raw_data[t].data) = Len(CallsTo(t))

\* C7: the file is written at most once, only after every token of the
\* network had all its rounds fetched; no contract call follows the write;
\* the run is Done only after the write.
C7_SingleWriteAtTheEnd ==
    /\ [](file.writes <= 1)
    /\ [](file.writes = 1 => (pc = "Done" /\ AllTokensFetched
                                /\ file.content = raw_data))
    /\ [](pc = "Done" => file.writes = 1)
    /\ [][file' # file => (pc = "Serialize" /\ AllTokensFetched)]_vars
    /\ [][file.writes >= 1 => calls' = calls]_vars

\* C7: the file was written after nine calls, three per token.
C7_WrittenAfterNineCalls ==
    /\ file.writes = 1
    /\ Len(calls) = 9
    /\ pc = "Done"

---------------------------------------------------------------------------
(* C8 *)

\* C8: every round_id, price and timestamp of the result document is the
\* decimal string of the integer the contract returned, the sign of a
\* negative answer included: reading the string back gives that integer.
C8_FieldsAreDecimalStrings ==
    Registered =>
        \A t \in DOMAIN Document :
            LET data == Document[t].data
                rs   == ReturnedTo(t)
            IN  \A k \in 1..Len(data) :
                  /\ IsDecimalString(data[k].round_id)
                  /\ IsDecimalString(data[k].price)
                  /\ IsDecimalString(data[k].timestamp)
                  /\ ParseInt(data[k].round_id) = rs[k].result[1]
                  /\ ParseInt(data[k].price) = rs[k].result[2]
                  /\ ParseInt(data[k].timestamp) = rs[k].result[4]

\* C8: the written document holds a negative price and a four-digit one.
C8_NegativePriceWritten ==
    /\ pc = "Done"
    /\ file.content["ETH"].data[1].price = <<"-", "3", "5">>
    /\ file.content["ETH"].data[2].price = <<"1", "2", "3", "4">>

---------------------------------------------------------------------------
(* C9 *)

\* C9: for every num_rounds >= 1 and every token a completed run issued to
\* the token's contract one latestRoundData call followed by exactly
\* num_rounds - 1 getRoundData calls, for latest round id - 1, - 2, ...,
\* - (num_rounds - 1) in this order.
C9_ExactlyNumRoundsCalls ==
    pc = "Done" =>
        \A t \in DOMAIN config[chain_name] :
            LET cs == CallsTo(t)
            IN  /\ Len(cs) = 1 + (num_rounds - 1)
                /\ cs[1].fn = "latestRoundData"
                /\ \A k \in 2..Len(cs) :
                      /\ cs[k].fn = "getRoundData"
                      /\ cs[k].args = <<LatestIdOf(t) - (k - 1)>>

---------------------------------------------------------------------------
(* C10 *)

\* C10: under FairSpec every run ends Done or Aborted; Done comes with the
\* single write and Aborted with the unhandled exception; the historical
\* loop of a token is always left; a terminal state is never left.
C10_RunTerminates ==
    /\ <>(pc \in Terminal)
    /\ (pc = "FetchHistoricalLoop") ~> (pc # "FetchHistoricalLoop")
    /\ [](pc = "Done" => (file.writes = 1 /\ error = "none"))
    /\ [](pc = "Aborted" => error # "none")
    /\ [][(pc \in Terminal) => (UNCHANGED vars)]_vars
    /\ [](pc \in Terminal => ~ENABLED Next)

\* C10: a run of three rounds per token is Done, its loop counter at 3.
C10_LongestRunDone ==
    /\ pc = "Done"
    /\ num_rounds = 3
    /\ counter = 3
    /\ error = "none"

====
